---- MODULE Spec2Model ----
(***************************************************************************)
(* Model of .github/scripts/detect_drift.py: the Merkle commitment over    *)
(* workflow hashes (compute_merkle_root, hash_file_content,                *)
(* scan_workflows), the thin-caller policy scan                            *)
(* (detect_policy_violations, detect_missing_policies) and the report      *)
(* (generate_drift_report, main); and of                                   *)
(* .github/scripts/generate_repo_report.py: the GraphQL request loop       *)
(* (make_request) and the pagination (fetch_repositories); and of          *)
(* .github/scripts/setup_branch_protection.py: the loop of main over the   *)
(* governed repositories and setup_branch_protection.                      *)
(*                                                                         *)
(* Text.  A Python str/bytes value is a sequence of symbols.  A symbol is  *)
(* a record [tag, body]: an ordinary character has its one-character       *)
(* string as tag and an empty body; the hex digest of SHA-256 over the     *)
(* text s is the single symbol [tag |-> "sha256", body |-> s], so that two *)
(* digests are equal exactly when the hashed texts are equal (SHA-256      *)
(* taken as collision-free) and a digest is never equal to text that was   *)
(* not produced by hashing.  Concatenation of str values is \o.            *)
(***************************************************************************)
EXTENDS Integers, Sequences, FiniteSets, TLC

VARIABLES
    leaves,      \* the caller's list object passed to compute_merkle_root
    other,       \* a second list object the caller built from the first
    variant,     \* how `other` was built: "none", "copy", "swap", ...
    calls,       \* the calls of compute_merkle_root made so far, in order
    fs,          \* the repository's .github/workflows directory
    allowlist,   \* the allowlist argument of detect_policy_violations
    state,       \* the value scan_workflows returned, or NoResult
    violations,  \* the outcome of detect_policy_violations, or NoResult
    required_files, \* the required_files argument of generate_drift_report
    report,      \* the outcome of generate_drift_report, or NoResult
    exit_status, \* the exit status of main, or NotExited
    entry,       \* the method called: "make_request" or "fetch_repositories"
    pc,          \* where the call is: "fetch", "request", "returned", ...
    max_retries, \* the max_retries argument of make_request
    attempt,     \* the loop variable of make_request
    sent,        \* the requests posted by this call of make_request
    sleeps,      \* the calls of time.sleep made by this call of make_request
    response,    \* the outcome of the last post, or NoResponse
    data,        \* the value make_request returned, or NoData
    exit_code,   \* the status of sys.exit, or NotExited
    after_cursor, \* fetch_repositories: the cursor for the next page
    repositories, \* fetch_repositories: the nodes collected so far
    requests,    \* the 'after' variable of each page request, in order
    pages,       \* the pages make_request returned, in order
    governed_repos, \* setup_branch_protection.py: the manifest's repositories
    dry_run,     \* args.dry_run
    environ,     \* os.environ: the variables that are set
    results,     \* main's list of results
    token_reads, \* the calls of get_github_token made so far
    gh_calls,    \* the commands passed to subprocess.run so far, in order
    repo_index,  \* the position of main's loop in governed_repos
    main_pc,     \* "idle", "loop" or "exited"
    main_exit    \* the exit status of the process, or NotExited

vars == <<leaves, other, variant, calls, fs, allowlist, state, violations,
          required_files, report, exit_status,
          entry, pc, max_retries, attempt, sent, sleeps, response, data,
          exit_code, after_cursor, repositories, requests, pages,
          governed_repos, dry_run, environ, results, token_reads, gh_calls,
          repo_index, main_pc, main_exit>>

merkleVars == <<leaves, other, variant, calls>>
scanVars == <<fs, allowlist, state, violations>>
reportVars == <<required_files, report, exit_status>>
fetchVars == <<entry, pc, max_retries, attempt, sent, sleeps, response, data,
               exit_code, after_cursor, repositories, requests, pages>>
protectVars == <<governed_repos, dry_run, environ, results, token_reads,
                 gh_calls, repo_index, main_pc, main_exit>>

(***************************************************************************)
(* Bounds of the model.                                                    *)
(***************************************************************************)
MaxLeaves == 6
MaxCalls == 2

(***************************************************************************)
(* Text and hashing.                                                       *)
(***************************************************************************)
Chr(c) == [tag |-> c, body |-> <<>>]

Str(t) == [i \in 1..Len(t) |-> Chr(t[i])]

sha256_hexdigest(s) == <<[tag |-> "sha256", body |-> s]>>

(***************************************************************************)
(* compute_merkle_root.                                                    *)
(***************************************************************************)
\* Mutants of PadLeaves: padding with the first leaf, padding every
\* non-empty list, and leaving a single leaf unpadded.
PadLeavesFirst(l) ==
    IF Len(l) % 2 = 1 THEN Append(l, l[1]) ELSE l

PadLeavesAlways(l) ==
    IF Len(l) >= 1 THEN Append(l, l[Len(l)]) ELSE l

PadLeavesSkipSingle(l) ==
    IF Len(l) % 2 = 1 /\ Len(l) > 1 THEN Append(l, l[Len(l)]) ELSE l

\* Lines 42-43: the caller's list itself gets its last element appended
\* when its length is odd.
PadLeaves(l) ==
    IF Len(l) % 2 = 1 THEN Append(l, l[Len(l)]) ELSE l

\* Lines 49-58: one pass of the for loop over range(0, len, 2).  The read
\* of current_level[i + 1] is out of range for the last i of a level of odd
\* length.
PairRaises(current_level) == Len(current_level) % 2 = 1

\* Mutant of PairLevel: the right node of a pair is left out of the hash.
PairLevelLeftOnly(current_level) ==
    [k \in 1..(Len(current_level) \div 2) |->
        sha256_hexdigest(current_level[2 * k - 1] \o current_level[2 * k - 1])]

PairLevel(current_level) ==
    [k \in 1..(Len(current_level) \div 2) |->
        sha256_hexdigest(current_level[2 * k - 1] \o current_level[2 * k])]

\* Lines 48-62: the while loop; the result is the root, or IndexError.
RECURSIVE BuildTree(_)
BuildTree(current_level) ==
    IF Len(current_level) <= 1
    THEN [raised |-> FALSE, value |-> current_level[1]]
    ELSE IF PairRaises(current_level)
         THEN [raised |-> TRUE, value |-> <<>>]
         ELSE BuildTree(PairLevel(current_level))

\* Mutant of EmptyRoot: the empty tree gets the empty string as its root.
EmptyRootNull == <<>>

\* Lines 37-39: the root of the empty tree.
EmptyRoot == sha256_hexdigest(<<>>)

\* Lines 46: the level the loop starts from is the padded list object.
FirstLevel(l) == PadLeaves(l)

\* Lines 24-62.  after is the caller's list when the call ends.
compute_merkle_root(l) ==
    IF l = <<>>
    THEN [raised |-> FALSE, value |-> EmptyRoot, after |-> l]
    ELSE LET r == BuildTree(FirstLevel(l))
         IN  [raised |-> r.raised, value |-> r.value, after |-> PadLeaves(l)]

(***************************************************************************)
(* The callers of compute_merkle_root: the lists they build and the calls  *)
(* they make (test_detect_drift.py, TestMerkleRoot).                       *)
(***************************************************************************)
LeafSet == {Str(<<"a">>), Str(<<"a", "a">>), Str(<<"b">>)}

SeqsUpTo(S, n) == UNION {[1..k -> S] : k \in 0..n}

NoVariant == [kind |-> "none", i |-> 0, j |-> 0]

NoResult == [returned |-> FALSE]

\* main has not ended.
NotExited == -1

\* Python's None.
None == "None"

NoResponse == [kind |-> "none"]
NoData == [kind |-> "none"]

\* No method of GitHubReportGenerator has been called.
FetchIdle ==
    /\ entry = "none"
    /\ pc = "idle"
    /\ max_retries = 0
    /\ attempt = 0
    /\ sent = 0
    /\ sleeps = 0
    /\ response = NoResponse
    /\ data = NoData
    /\ exit_code = NotExited
    /\ after_cursor = None
    /\ repositories = <<>>
    /\ requests = <<>>
    /\ pages = <<>>

\* main of setup_branch_protection.py has not been started.
ProtectIdle ==
    /\ governed_repos = <<>>
    /\ dry_run = FALSE
    /\ environ = <<>>
    /\ results = <<>>
    /\ token_reads = 0
    /\ gh_calls = <<>>
    /\ repo_index = 1
    /\ main_pc = "idle"
    /\ main_exit = NotExited

MerkleInit ==
    /\ leaves \in SeqsUpTo(LeafSet, MaxLeaves)
    /\ other = <<>>
    /\ variant = NoVariant
    /\ calls = <<>>
    /\ fs = <<>>
    /\ allowlist = {}
    /\ state = NoResult
    /\ violations = NoResult
    /\ required_files = <<>>
    /\ report = NoResult
    /\ exit_status = NotExited
    /\ FetchIdle
    /\ ProtectIdle

\* leaves2 = list(leaves): an equal list in another list object.
CopyList ==
    /\ variant.kind = "none" /\ calls = <<>>
    /\ other' = leaves
    /\ variant' = [kind |-> "copy", i |-> 0, j |-> 0]
    /\ UNCHANGED <<leaves, calls>>

\* The same leaves with positions i and j exchanged (test_order_matters).
SwapList ==
    /\ variant.kind = "none" /\ calls = <<>>
    /\ \E i \in 1..Len(leaves) : \E j \in (i + 1)..Len(leaves) :
          /\ other' = [leaves EXCEPT ![i] = leaves[j], ![j] = leaves[i]]
          /\ variant' = [kind |-> "swap", i |-> i, j |-> j]
    /\ UNCHANGED <<leaves, calls>>

\* The same leaves with one more leaf at the end.
AppendList ==
    /\ variant.kind = "none" /\ calls = <<>>
    /\ Len(leaves) < MaxLeaves
    /\ \E x \in LeafSet :
          /\ other' = Append(leaves, x)
          /\ variant' = [kind |-> "append", i |-> Len(leaves) + 1, j |-> 0]
    /\ UNCHANGED <<leaves, calls>>

\* The same leaves with the leaf at position i replaced by another one.
ReplaceList ==
    /\ variant.kind = "none" /\ calls = <<>>
    /\ \E i \in 1..Len(leaves) : \E x \in LeafSet \ {leaves[i]} :
          /\ other' = [leaves EXCEPT ![i] = x]
          /\ variant' = [kind |-> "replace", i |-> i, j |-> 0]
    /\ UNCHANGED <<leaves, calls>>

CallRecord(target, l) ==
    LET r == compute_merkle_root(l)
    IN  [target |-> target, before |-> l, after |-> r.after,
         raised |-> r.raised, value |-> r.value]

\* root = compute_merkle_root(leaves)
CallLeaves ==
    /\ Len(calls) < MaxCalls
    /\ calls' = Append(calls, CallRecord("leaves", leaves))
    /\ leaves' = compute_merkle_root(leaves).after
    /\ UNCHANGED <<other, variant>>

\* root2 = compute_merkle_root(leaves2)
CallOther ==
    /\ Len(calls) < MaxCalls
    /\ variant.kind # "none"
    /\ calls' = Append(calls, CallRecord("other", other))
    /\ other' = compute_merkle_root(other).after
    /\ UNCHANGED <<leaves, variant>>

MerkleNext ==
    \/ CopyList /\ UNCHANGED <<scanVars, reportVars, fetchVars, protectVars>>
    \/ SwapList /\ UNCHANGED <<scanVars, reportVars, fetchVars, protectVars>>
    \/ AppendList /\ UNCHANGED <<scanVars, reportVars, fetchVars, protectVars>>
    \/ ReplaceList /\ UNCHANGED <<scanVars, reportVars, fetchVars, protectVars>>
    \/ CallLeaves /\ UNCHANGED <<scanVars, reportVars, fetchVars, protectVars>>
    \/ CallOther /\ UNCHANGED <<scanVars, reportVars, fetchVars, protectVars>>

MerkleSpec == MerkleInit /\ [][MerkleNext]_vars

(***************************************************************************)
(* Properties of compute_merkle_root, checked under MerkleSpec.            *)
(***************************************************************************)
Returned(c) == ~c.raised

\* Every leaf of every list of the call has one common, non-zero length,
\* as the SHA-256 hex digests the function is documented to take have.
EqualWidth(l) ==
    /\ \A p \in DOMAIN l : Len(l[p]) > 0
    /\ \A p, q \in DOMAIN l : Len(l[p]) = Len(l[q])

\* C1: compute_merkle_root is total: for a leaf list of any length it
\* returns a root and never raises (no read past the end of a level).
C1_Total == \A k \in DOMAIN calls : Returned(calls[k])

\* The construction C2 describes: a level of odd length greater than one
\* (and the leaf level of length one) gets its last node duplicated, at
\* every level, then adjacent pairs are hashed.
RECURSIVE ReferenceRoot(_)
ReferenceRoot(level) ==
    IF Len(level) = 1
    THEN level[1]
    ELSE LET padded == IF Len(level) % 2 = 1
                       THEN Append(level, level[Len(level)])
                       ELSE level
         IN  ReferenceRoot([k \in 1..(Len(padded) \div 2) |->
                 sha256_hexdigest(padded[2 * k - 1] \o padded[2 * k])])

ReferenceRootOfLeaves(l) ==
    IF Len(l) = 1 THEN sha256_hexdigest(l[1] \o l[1]) ELSE ReferenceRoot(l)

\* C2: whenever a level (leaves or intermediate) holds an odd number of
\* nodes greater than one its last node is paired with itself, so the call
\* returns the root of the reference construction that duplicates at every
\* level.
C2_DuplicatesAtEveryLevel ==
    \A k \in DOMAIN calls :
        calls[k].before # <<>> =>
            /\ Returned(calls[k])
            /\ calls[k].value = ReferenceRootOfLeaves(calls[k].before)

\* The first call made on each of the two list objects: their arguments are
\* the lists as the caller built them.
FirstOn(t) ==
    {k \in DOMAIN calls :
        /\ calls[k].target = t
        /\ \A m \in 1..(k - 1) : calls[m].target # t}

CallPairs == FirstOn("leaves") \X FirstOn("other")

SameRoot(p, q) ==
    /\ Returned(calls[p]) /\ Returned(calls[q])
    /\ calls[p].value = calls[q].value

SwappedDiffer(p) ==
    /\ variant.kind = "swap"
    /\ calls[p].before[variant.i] # calls[p].before[variant.j]

\* C3 as claimed: exchanging two positions that hold different leaf
\* strings never leaves the root the same, for leaf strings of any kind.
C3_SwapChangesRoot_AnyLeaves ==
    \A pq \in CallPairs : SwappedDiffer(pq[1]) => ~SameRoot(pq[1], pq[2])

\* C3 (amended): for leaves of one common non-zero length, exchanging two
\* positions that hold different leaves never leaves the root the same.
C3_SwapChangesRoot ==
    \A pq \in CallPairs :
        (SwappedDiffer(pq[1]) /\ EqualWidth(calls[pq[1]].before))
            => ~SameRoot(pq[1], pq[2])

C3_Witness ==
    \E pq \in CallPairs :
        /\ SwappedDiffer(pq[1]) /\ EqualWidth(calls[pq[1]].before)
        /\ Len(calls[pq[1]].before) = 3
        /\ variant.j = 3
        /\ Returned(calls[pq[1]]) /\ Returned(calls[pq[2]])
        /\ calls[pq[1]].value # calls[pq[2]].value

MembershipDiffers == variant.kind \in {"append", "replace"}

\* The second list is the first, of odd length, with a copy of its last
\* leaf appended: the list the padding rule itself produces.
AppendedOwnLast(p, q) ==
    /\ variant.kind = "append"
    /\ Len(calls[q].before) % 2 = 0
    /\ calls[q].before[variant.i] = calls[q].before[variant.i - 1]

\* C4 as claimed: two leaf sequences that differ in membership (one more
\* leaf appended, or one leaf replaced by another) never have the same root.
C4_MembershipBinds_Always ==
    \A pq \in CallPairs : MembershipDiffers => ~SameRoot(pq[1], pq[2])

\* C4 (amended): for leaves of one common non-zero length, a sequence and
\* the sequence with one leaf replaced or one more leaf appended never have
\* the same root, except that a sequence of odd length and the same
\* sequence with a copy of its last leaf appended do have the same root.
C4_MembershipBinds ==
    \A pq \in CallPairs :
        (MembershipDiffers /\ EqualWidth(calls[pq[2]].before))
            => (SameRoot(pq[1], pq[2]) <=>
                    (/\ AppendedOwnLast(pq[1], pq[2])
                     /\ Returned(calls[pq[1]])))

C4_Witness ==
    \E pq \in CallPairs :
        /\ AppendedOwnLast(pq[1], pq[2])
        /\ EqualWidth(calls[pq[2]].before)
        /\ Len(calls[pq[1]].before) = 3
        /\ pq[1] < pq[2]
        /\ SameRoot(pq[1], pq[2])

\* C5: compute_merkle_root is pure: after the call the caller's list holds
\* the same elements, in the same order and number, as before the call.
C5_CallerListUnchanged ==
    \A k \in DOMAIN calls : calls[k].after = calls[k].before

\* C6: compute_merkle_root is deterministic: calls with equal leaf
\* sequences have equal outcomes, also consecutive calls on one and the
\* same list object and calls on two equal lists in different objects.
C6_Deterministic ==
    \A p, q \in DOMAIN calls :
        (calls[p].target = calls[q].target \/ variant.kind = "copy")
            => /\ calls[p].raised = calls[q].raised
               /\ calls[p].value = calls[q].value

C6_Witness ==
    /\ Len(calls) >= 2
    /\ calls[1].target = "leaves" /\ calls[2].target = "leaves"
    /\ Len(calls[1].before) = 3
    /\ calls[2].before # calls[1].before
    /\ Returned(calls[1]) /\ Returned(calls[2])
    /\ calls[1].value = calls[2].value

\* C8: for a single-leaf list [x] the root is the hash of the text x
\* followed by x, which is also the root of the two-leaf list [x, x].
C8_SingleLeaf ==
    \A p \in DOMAIN calls :
        Len(calls[p].before) = 1 =>
            LET x == calls[p].before[1]
            IN  /\ Returned(calls[p])
                /\ calls[p].value = <<[tag |-> "sha256", body |-> x \o x]>>
                /\ \A q \in DOMAIN calls :
                      calls[q].before = <<x, x>> =>
                          /\ Returned(calls[q])
                          /\ calls[q].value = calls[p].value

C8_Witness ==
    \E pq \in CallPairs :
        /\ Len(calls[pq[1]].before) = 1
        /\ calls[pq[2]].before =
               <<calls[pq[1]].before[1], calls[pq[1]].before[1]>>
        /\ pq[1] < pq[2]
        /\ SameRoot(pq[1], pq[2])

(***************************************************************************)
(* The workflows directory and the text of its files.                      *)
(***************************************************************************)
MaxLines == 3

NL == Chr("\n")

\* str.startswith(prefix)
startswith(s, prefix) ==
    /\ Len(s) >= Len(prefix)
    /\ SubSeq(s, 1, Len(prefix)) = prefix

\* str.endswith(suffix)
endswith(s, suffix) ==
    /\ Len(s) >= Len(suffix)
    /\ SubSeq(s, Len(s) - Len(suffix) + 1, Len(s)) = suffix

\* The whitespace str.lstrip() removes, as far as the texts here hold it.
Whitespace == {Chr(" "), Chr("\t")}

\* str.lstrip(): leading whitespace removed, the rest kept as it is.
RECURSIVE lstrip(_)
lstrip(s) ==
    IF s # <<>> /\ s[1] \in Whitespace THEN lstrip(Tail(s)) ELSE s

\* str.split(sep) for a one-character separator.
RECURSIVE split(_, _)
split(s, sep) ==
    IF \E i \in 1..Len(s) : s[i] = sep
    THEN LET i == CHOOSE i \in 1..Len(s) :
                      s[i] = sep /\ \A j \in 1..(i - 1) : s[j] # sep
         IN  <<SubSeq(s, 1, i - 1)>> \o split(SubSeq(s, i + 1, Len(s)), sep)
    ELSE <<s>>

\* "\n".join(lines): how the text of a file is written.
RECURSIVE JoinLines(_)
JoinLines(ls) ==
    IF Len(ls) = 0 THEN <<>>
    ELSE IF Len(ls) = 1 THEN ls[1]
    ELSE ls[1] \o <<NL>> \o JoinLines(Tail(ls))

\* The lines workflow files are written from.
LineSet ==
    { Str(<<"r", "u", "n", ":">>),
      Str(<<" ", "\t", "-", " ", "r", "u", "n", ":", " ", "x">>),
      Str(<<"r", "u", "n", "s", "-", "o", "n", ":", " ", "x">>),
      Str(<<" ", "#", " ", "r", "u", "n", ":">>),
      Str(<<"-", "r", "u", "n", ":", " ", "x">>),
      <<>> }

\* The names of the files the directory may hold.
NameA == Str(<<"a", ".", "y", "m", "l">>)
NameB == Str(<<"b", ".", "y", "a", "m", "l">>)
NameC == Str(<<"c", ".", "t", "x", "t">>)
Names == {NameA, NameB, NameC}

AbsentFile == [status |-> "absent", content |-> <<>>, text_lines |-> <<>>]

\* A file that cannot be opened, and one whose bytes are not valid UTF-8.
UnreadableFile ==
    [status |-> "unreadable", content |-> <<>>, text_lines |-> <<>>]
UndecodableFile ==
    [status |-> "undecodable", content |-> <<Chr("0xff")>>, text_lines |-> <<>>]

\* The files of n lines: text_lines keeps the lines the text was written
\* from, content is the text itself.
FilesOfLines(n) ==
    IF n = 0 THEN {AbsentFile}
    ELSE {[status |-> "ok", content |-> JoinLines(ls), text_lines |-> ls] :
              ls \in [1..n -> LineSet]}
         \cup (IF n = 1 THEN {UnreadableFile, UndecodableFile} ELSE {})

Present(name) == fs.files[name].status # "absent"

\* fnmatch of a file name against the pattern "*.y*ml".
GlobMatch(name) ==
    /\ endswith(name, Str(<<"m", "l">>))
    /\ \E i \in 1..(Len(name) - 3) :
          name[i] = Chr(".") /\ name[i + 1] = Chr("y")

\* workflows_dir.glob("*.y*ml"): the matching files of the directory.
GlobNames == {name \in Names : Present(name) /\ GlobMatch(name)}

\* The orders in which a directory listing can yield a set of names.
Orders(S) ==
    {o \in [1..Cardinality(S) -> S] :
        \A p, q \in 1..Cardinality(S) : p # q => o[p] # o[q]}

\* Code points of the characters file names are made of.
ord(c) ==
    CASE c = Chr(".") -> 46
      [] c = Chr("a") -> 97
      [] c = Chr("b") -> 98
      [] c = Chr("c") -> 99
      [] c = Chr("l") -> 108
      [] c = Chr("m") -> 109
      [] c = Chr("t") -> 116
      [] c = Chr("x") -> 120
      [] c = Chr("y") -> 121

\* s < t for str values: the comparison sorted() applies to the paths,
\* which differ in their last component only.
RECURSIVE StrLess(_, _)
StrLess(s, t) ==
    IF t = <<>> THEN FALSE
    ELSE IF s = <<>> THEN TRUE
    ELSE IF s[1] = t[1] THEN StrLess(Tail(s), Tail(t))
    ELSE ord(s[1]) < ord(t[1])

\* sorted(workflows_dir.glob("*.y*ml"))
SortedGlob ==
    CHOOSE o \in Orders(GlobNames) :
        \A p, q \in 1..Len(o) : p < q => StrLess(o[p], o[q])

\* str(workflow_file.relative_to(repo_path))
RelPath(name) ==
    Str(<<".", "g", "i", "t", "h", "u", "b", "/",
          "w", "o", "r", "k", "f", "l", "o", "w", "s", "/">>) \o name

(***************************************************************************)
(* hash_file_content and scan_workflows.                                   *)
(***************************************************************************)
\* Mutant of hash_file_content: a file that cannot be read gets the empty
\* string instead of the digest of b"".
hash_file_content_empty_string(file) ==
    IF file.status \in {"ok", "undecodable"}
    THEN sha256_hexdigest(file.content)
    ELSE <<>>

\* Lines 65-76: the digest of the bytes, or of b"" when reading raises.
hash_file_content(file) ==
    IF file.status \in {"ok", "undecodable"}
    THEN sha256_hexdigest(file.content)
    ELSE sha256_hexdigest(<<>>)

\* Mutant of WorkflowEntries: the allowlisted files are left out of the
\* inventory.
WorkflowEntriesNotAllowlisted ==
    LET Kept(name) == name \notin allowlist
        kept == SelectSeq(SortedGlob, Kept)
    IN  [k \in 1..Len(kept) |->
            [name |-> kept[k],
             path |-> RelPath(kept[k]),
             hash |-> hash_file_content(fs.files[kept[k]])]]

\* Lines 99-106: the inventory, in sorted path order.
WorkflowEntries ==
    [k \in 1..Len(SortedGlob) |->
        [name |-> SortedGlob[k],
         path |-> RelPath(SortedGlob[k]),
         hash |-> hash_file_content(fs.files[SortedGlob[k]])]]

\* Mutant of scan_workflows: workflow_count is the length of the hash list
\* after compute_merkle_root has padded it.
scan_workflows_padded_count ==
    IF ~fs.exists
    THEN [returned |-> TRUE, raised |-> FALSE,
          workflows |-> <<>>,
          merkle_root |-> compute_merkle_root(<<>>).value,
          workflow_count |-> 0]
    ELSE LET workflows == WorkflowEntries
             hashes == [k \in 1..Len(workflows) |-> workflows[k].hash]
             r == compute_merkle_root(hashes)
         IN  [returned |-> TRUE, raised |-> r.raised,
              workflows |-> workflows,
              merkle_root |-> r.value,
              workflow_count |-> Len(r.after)]

\* Lines 79-115.  The timestamp field is left out.
scan_workflows ==
    IF ~fs.exists
    THEN [returned |-> TRUE, raised |-> FALSE,
          workflows |-> <<>>,
          merkle_root |-> compute_merkle_root(<<>>).value,
          workflow_count |-> 0]
    ELSE LET workflows == WorkflowEntries
             hashes == [k \in 1..Len(workflows) |-> workflows[k].hash]
             r == compute_merkle_root(hashes)
         IN  [returned |-> TRUE, raised |-> r.raised,
              workflows |-> workflows,
              merkle_root |-> r.value,
              workflow_count |-> Len(workflows)]

(***************************************************************************)
(* detect_policy_violations.                                               *)
(***************************************************************************)
\* Mutant of IsCommandLine: the bare key is matched without its colon.
IsCommandLineNoColon(stripped) ==
    \/ startswith(stripped, Str(<<"r", "u", "n">>))
    \/ startswith(stripped, Str(<<"-", " ", "r", "u", "n", ":">>))

\* Line 153: the stripped line starts with "run:" or "- run:".
IsCommandLine(stripped) ==
    \/ startswith(stripped, Str(<<"r", "u", "n", ":">>))
    \/ startswith(stripped, Str(<<"-", " ", "r", "u", "n", ":">>))

\* Lines 148-154: the body of the loop for one line: TRUE when the line
\* number is appended to violation_lines.
LineViolates(line) ==
    LET stripped == lstrip(line)
    IN  IF startswith(stripped, Str(<<"#">>))
        THEN FALSE
        ELSE IsCommandLine(stripped)

\* Lines 144-154: violation_lines after the loop over enumerate(lines, 1),
\* started at line number i with the list acc.
RECURSIVE ViolationLines(_, _, _)
ViolationLines(lines, i, acc) ==
    IF i > Len(lines) THEN acc
    ELSE ViolationLines(lines, i + 1,
             IF LineViolates(lines[i]) THEN Append(acc, i) ELSE acc)

\* Mutant of AddViolation: the entry is appended also when violation_lines
\* is empty.
AddViolationAlways(acc, name, violation_lines) ==
    Append(acc, [file |-> name,
                 path |-> RelPath(name),
                 violation_type |-> "bespoke_run_command",
                 lines |-> violation_lines,
                 message |-> <<"Contains", Len(violation_lines),
                               "bespoke 'run:' command(s)">>])

\* Lines 156-163: the violations list after one file.
AddViolation(acc, name, violation_lines) ==
    IF violation_lines # <<>>
    THEN Append(acc, [file |-> name,
                      path |-> RelPath(name),
                      violation_type |-> "bespoke_run_command",
                      lines |-> violation_lines,
                      message |-> <<"Contains", Len(violation_lines),
                                    "bespoke 'run:' command(s)">>])
    ELSE acc

\* Mutant of ScanFiles: the allowlist is not looked at.
RECURSIVE ScanFilesNoAllowlist(_, _)
ScanFilesNoAllowlist(order, acc) ==
    IF order = <<>>
    THEN [returned |-> TRUE, raised |-> FALSE, value |-> acc]
    ELSE LET name == Head(order)
             file == fs.files[name]
         IN  IF file.status # "ok"
             THEN [returned |-> TRUE, raised |-> TRUE, value |-> <<>>]
             ELSE ScanFilesNoAllowlist(Tail(order),
                      AddViolation(acc, name,
                          ViolationLines(split(file.content, NL), 1, <<>>)))

\* Lines 136-165: the loop over the files, in the order the directory
\* listing yields them.  read_text() raises for a file that cannot be
\* opened or decoded, and nothing catches it.
RECURSIVE ScanFiles(_, _)
ScanFiles(order, acc) ==
    IF order = <<>>
    THEN [returned |-> TRUE, raised |-> FALSE, value |-> acc]
    ELSE LET name == Head(order)
             file == fs.files[name]
         IN  IF name \in allowlist
             THEN ScanFiles(Tail(order), acc)
             ELSE IF file.status # "ok"
             THEN [returned |-> TRUE, raised |-> TRUE, value |-> <<>>]
             ELSE ScanFiles(Tail(order),
                      AddViolation(acc, name,
                          ViolationLines(split(file.content, NL), 1, <<>>)))

\* Lines 118-165, for one order of the directory listing.
detect_policy_violations(order) ==
    IF ~fs.exists
    THEN [returned |-> TRUE, raised |-> FALSE, value |-> <<>>]
    ELSE ScanFiles(order, <<>>)

(***************************************************************************)
(* A scan of one repository.                                               *)
(***************************************************************************)
\* The files hold at most MaxLines lines together; the file the pattern
\* does not match holds at most one.
LineCounts ==
    {n \in [Names -> 0..MaxLines] :
        n[NameA] + n[NameB] + n[NameC] <= MaxLines /\ n[NameC] <= 1}

Allowlists == {{}, {NameA}, {NameA, NameB}}

ScanInit ==
    /\ \E n \in LineCounts :
          \E fa \in FilesOfLines(n[NameA]) :
          \E fb \in FilesOfLines(n[NameB]) :
          \E fc \in FilesOfLines(n[NameC]) :
          \E exists \in BOOLEAN :
              /\ (~exists) => (\A name \in Names : n[name] = 0)
              /\ fs = [exists |-> exists,
                       files |-> (NameA :> fa @@ NameB :> fb @@ NameC :> fc)]
    /\ allowlist \in Allowlists
    /\ state = NoResult
    /\ violations = NoResult
    /\ required_files = <<>>
    /\ report = NoResult
    /\ exit_status = NotExited
    /\ FetchIdle
    /\ ProtectIdle
    /\ leaves = <<>>
    /\ other = <<>>
    /\ variant = NoVariant
    /\ calls = <<>>

\* state = scan_workflows(repo_path)
ScanWorkflows ==
    /\ state = NoResult
    /\ state' = scan_workflows
    /\ UNCHANGED <<fs, allowlist, violations>>

\* violations = detect_policy_violations(repo_path, allowlist)
DetectPolicyViolations ==
    /\ violations = NoResult
    /\ \E order \in Orders(GlobNames) :
          violations' = detect_policy_violations(order)
    /\ UNCHANGED <<fs, allowlist, state>>

ScanNext ==
    \/ ScanWorkflows /\ UNCHANGED <<merkleVars, reportVars, fetchVars, protectVars>>
    \/ DetectPolicyViolations /\ UNCHANGED <<merkleVars, reportVars, fetchVars, protectVars>>

ScanSpec == ScanInit /\ [][ScanNext]_vars

(***************************************************************************)
(* Properties of the scan, checked under ScanSpec.                         *)
(***************************************************************************)
ScanDone == violations.returned /\ ~violations.raised

\* The files detect_policy_violations reads: matched by the pattern and
\* not in the allowlist.
ScannedNames == {name \in GlobNames : name \notin allowlist}

\* t begins with the characters of p.
Begins(t, p) ==
    /\ Len(t) >= Len(p)
    /\ \A i \in 1..Len(p) : t[i] = Chr(p[i])

\* The line without its leading blanks and tabs; what follows is kept.
AfterLeadingWhitespace(line) ==
    LET k == CHOOSE k \in 0..Len(line) :
                 /\ \A j \in 1..k : line[j].tag \in {" ", "\t"}
                 /\ k < Len(line) => line[k + 1].tag \notin {" ", "\t"}
    IN  SubSeq(line, k + 1, Len(line))

\* The rule of C9 for one line.
IsCommandKeyLine(line) ==
    LET t == AfterLeadingWhitespace(line)
    IN  /\ ~Begins(t, <<"#">>)
        /\ \/ Begins(t, <<"r", "u", "n", ":">>)
           \/ Begins(t, <<"-", " ", "r", "u", "n", ":">>)

SharesPrefixOnly(line) ==
    LET t == AfterLeadingWhitespace(line)
    IN  /\ Begins(t, <<"r", "u", "n">>)
        /\ ~Begins(t, <<"r", "u", "n", ":">>)

EntriesFor(name) ==
    {k \in DOMAIN violations.value : violations.value[k].file = name}

\* The line numbers recorded for a file in the returned list.
RecordedLines(name) ==
    UNION {{violations.value[k].lines[m] :
               m \in DOMAIN violations.value[k].lines} : k \in EntriesFor(name)}

\* C7: for the empty leaf sequence the root is the hash of the empty byte
\* string, the value hash_file_content gives for an empty file, and not a
\* null value; scan_workflows reports it when the workflows directory is
\* absent (and when the directory holds no workflow file).
C7_EmptyTreeRoot ==
    (state.returned /\ (~fs.exists \/ state.workflows = <<>>)) =>
        /\ ~state.raised
        /\ state.workflows = <<>>
        /\ state.merkle_root = <<[tag |-> "sha256", body |-> <<>>]>>
        /\ state.merkle_root =
               hash_file_content([status |-> "ok", content |-> <<>>,
                                  text_lines |-> << <<>> >>])
        /\ \A name \in Names :
              (fs.files[name].status = "ok" /\ fs.files[name].content = <<>>)
                  => hash_file_content(fs.files[name]) = state.merkle_root

C7_Witness ==
    /\ state.returned
    /\ ~fs.exists
    /\ state.workflow_count = 0
    /\ state.merkle_root = <<[tag |-> "sha256", body |-> <<>>]>>

\* C9: a line is recorded as violating if and only if, with its leading
\* whitespace removed, it does not begin with '#' and begins with 'run:' or
\* with '- run:'; a line that begins with 'runs-on:', or with any other key
\* sharing only the prefix 'run', is never recorded.
C9_CommandLineRule ==
    ScanDone =>
        \A name \in ScannedNames :
            LET lines == fs.files[name].text_lines
            IN  /\ RecordedLines(name) \subseteq 1..Len(lines)
                /\ \A i \in 1..Len(lines) :
                      /\ (i \in RecordedLines(name)) <=> IsCommandKeyLine(lines[i])
                      /\ SharesPrefixOnly(lines[i]) => i \notin RecordedLines(name)

C9_Witness ==
    /\ ScanDone
    /\ \E name \in ScannedNames :
          LET lines == fs.files[name].text_lines
          IN  /\ Len(lines) = 3
              /\ SharesPrefixOnly(lines[1]) /\ 1 \notin RecordedLines(name)
              /\ Begins(lines[2], <<" ", "\t", "-", " ", "r", "u", "n", ":">>)
              /\ 2 \in RecordedLines(name)
              /\ Begins(lines[3], <<" ", "#">>) /\ 3 \notin RecordedLines(name)

CommandLineNumbers(name) ==
    {i \in 1..Len(fs.files[name].text_lines) :
        IsCommandKeyLine(fs.files[name].text_lines[i])}

\* C10: at most one entry per scanned file: a file with a violating line
\* yields exactly one entry, whose 'lines' holds every violating 1-based
\* line number of the file once, in ascending order; a file with no
\* violating line yields no entry.
C10_OneEntryPerFile ==
    ScanDone =>
        /\ \A k \in DOMAIN violations.value :
              violations.value[k].file \in ScannedNames
        /\ \A name \in ScannedNames :
              IF CommandLineNumbers(name) # {}
              THEN /\ Cardinality(EntriesFor(name)) = 1
                   /\ \A k \in EntriesFor(name) :
                         LET ls == violations.value[k].lines
                         IN  /\ \A p, q \in DOMAIN ls : p < q => ls[p] < ls[q]
                             /\ {ls[p] : p \in DOMAIN ls} = CommandLineNumbers(name)
              ELSE EntriesFor(name) = {}

C10_Witness ==
    /\ ScanDone
    /\ Len(violations.value) = 2
    /\ \E k \in DOMAIN violations.value : violations.value[k].lines = <<1, 2>>
    /\ \E k \in DOMAIN violations.value : violations.value[k].lines = <<1>>

\* C14: a file whose name is in the allowlist never produces an
\* inline-command violation, whatever its content (be it unreadable: the
\* file is skipped before it is read); the same content under a name that
\* is not in the allowlist is scanned normally.
C14_AllowlistExempt ==
    /\ (violations.returned /\ violations.raised) =>
           \E name \in ScannedNames : fs.files[name].status # "ok"
    /\ ScanDone =>
           /\ \A k \in DOMAIN violations.value :
                 violations.value[k].file \notin allowlist
           /\ \A name \in GlobNames \ allowlist :
                 (EntriesFor(name) # {}) <=> (CommandLineNumbers(name) # {})

C14_Witness ==
    /\ ScanDone
    /\ allowlist = {NameA}
    /\ fs.files[NameA].text_lines = fs.files[NameB].text_lines
    /\ CommandLineNumbers(NameA) # {}
    /\ EntriesFor(NameA) = {}
    /\ EntriesFor(NameB) # {}

\* The digest of a text, as one symbol.
Digest(text) == <<[tag |-> "sha256", body |-> text]>>

\* C20: in the result of scan_workflows each matched workflow file appears
\* exactly once in 'workflows', in ascending path order; workflow_count is
\* the number of matched files, not the padded number of leaves, also when
\* that number is odd; merkle_root is compute_merkle_root of the entries'
\* hashes in that order.
C20_InventoryAndRoot ==
    (state.returned /\ ~state.raised) =>
        LET ws == state.workflows
            hashes == [k \in DOMAIN ws |-> ws[k].hash]
        IN  /\ \A k \in DOMAIN ws :
                  /\ ws[k].name \in GlobNames
                  /\ ws[k].path = RelPath(ws[k].name)
            /\ \A name \in GlobNames :
                  Cardinality({k \in DOMAIN ws : ws[k].name = name}) = 1
            /\ \A p, q \in DOMAIN ws :
                  p < q => StrLess(ws[p].path, ws[q].path)
            /\ state.workflow_count = Cardinality(GlobNames)
            /\ state.merkle_root = compute_merkle_root(hashes).value
            /\ Len(ws) = 1 => state.merkle_root = Digest(ws[1].hash \o ws[1].hash)
            /\ Len(ws) = 2 => state.merkle_root = Digest(ws[1].hash \o ws[2].hash)

\* One matched file: an odd number of leaves, padded to two for the root.
C20_Witness ==
    /\ state.returned /\ ~state.raised
    /\ state.workflow_count = 1
    /\ Len(state.workflows) = 1
    /\ Len(compute_merkle_root(<<state.workflows[1].hash>>).after) = 2
    /\ fs.files[NameC].status = "ok"

\* The matched files whose bytes cannot be read.
UnreadableNames == {name \in GlobNames : fs.files[name].status = "unreadable"}

\* A readable file of no bytes.
EmptyFile == [status |-> "ok", content |-> <<>>, text_lines |-> << <<>> >>]

MaxReportLines == 2

\* A required name that is never the name of a file of the directory.
PolicyName == Str(<<"p", "o", "l", "i", "c", "y", ".", "y", "m", "l">>)

\* Line 183: (workflows_dir / required_file).exists().
FileExists(name) ==
    /\ fs.exists
    /\ name \in DOMAIN fs.files
    /\ Present(name)

\* Mutant of MissingEntries: a required file counts as present only when
\* the pattern "*.y*ml" matches it.
RECURSIVE MissingEntriesOfGlob(_, _)
MissingEntriesOfGlob(required, acc) ==
    IF required = <<>> THEN acc
    ELSE LET required_file == Head(required)
         IN  MissingEntriesOfGlob(Tail(required),
                 IF ~(FileExists(required_file) /\ required_file \in GlobNames)
                 THEN Append(acc,
                          [file |-> required_file,
                           path |-> RelPath(required_file),
                           violation_type |-> "missing_required_file",
                           message |-> <<"Required governance file",
                                         required_file, "is missing">>])
                 ELSE acc)

\* Lines 180-191: the list `missing` after the loop over the rest
\* `required` of required_files, started with the list acc.
RECURSIVE MissingEntries(_, _)
MissingEntries(required, acc) ==
    IF required = <<>> THEN acc
    ELSE LET required_file == Head(required)
         IN  MissingEntries(Tail(required),
                 IF ~FileExists(required_file)
                 THEN Append(acc,
                          [file |-> required_file,
                           path |-> RelPath(required_file),
                           violation_type |-> "missing_required_file",
                           message |-> <<"Required governance file",
                                         required_file, "is missing">>])
                 ELSE acc)

\* Lines 168-193.
detect_missing_policies == MissingEntries(required_files, <<>>)

\* A call that ended in an exception: no report is returned.
ReportRaised == [returned |-> TRUE, raised |-> TRUE]

\* Mutant of DriftReport: the verdict looks at the inline-command
\* violations only.
DriftReportInlineVerdict(scanned, found, missing) ==
    LET all_violations == found \o missing
    IN  [returned |-> TRUE, raised |-> FALSE,
         state |-> scanned,
         violations |-> all_violations,
         violation_count |-> Len(all_violations),
         drift_detected |-> Len(found) > 0,
         status |-> IF found # <<>>
                    THEN "DRIFT_DETECTED" ELSE "COMPLIANT"]

\* Lines 211-223: the report built from the three results.  The
\* repository and timestamp fields are left out.
DriftReport(scanned, found, missing) ==
    LET all_violations == found \o missing
    IN  [returned |-> TRUE, raised |-> FALSE,
         state |-> scanned,
         violations |-> all_violations,
         violation_count |-> Len(all_violations),
         drift_detected |-> Len(all_violations) > 0,
         status |-> IF all_violations # <<>>
                    THEN "DRIFT_DETECTED" ELSE "COMPLIANT"]

\* Lines 196-223, for one order of the directory listing.  An exception
\* of scan_workflows or of detect_policy_violations passes through.
generate_drift_report(order) ==
    LET scanned == scan_workflows
        found == detect_policy_violations(order)
    IN  IF scanned.raised \/ found.raised
        THEN ReportRaised
        ELSE DriftReport([workflows |-> scanned.workflows,
                          merkle_root |-> scanned.merkle_root,
                          workflow_count |-> scanned.workflow_count],
                         found.value, detect_missing_policies)

\* Lines 226-288: the exit status of main for the outcome r of its call of
\* generate_drift_report; an exception that nothing catches ends the
\* interpreter with status 1.
ExitStatusOf(r) ==
    IF r.raised THEN 1
    ELSE IF r.drift_detected THEN 1 ELSE 0

(***************************************************************************)
(* Reports of one repository under one policy.                             *)
(***************************************************************************)
\* The lines the files of a report are written from: the two spellings of
\* a command line and a line that is none; and the files of n such lines.
ReportLineSet ==
    { Str(<<"r", "u", "n", ":">>),
      Str(<<" ", "\t", "-", " ", "r", "u", "n", ":", " ", "x">>),
      Str(<<"r", "u", "n", "s", "-", "o", "n", ":", " ", "x">>) }

ReportFilesOfLines(n) ==
    {f \in FilesOfLines(n) :
        \A i \in DOMAIN f.text_lines : f.text_lines[i] \in ReportLineSet}

ReportLineCounts ==
    {n \in [Names -> 0..MaxReportLines] :
        n[NameA] + n[NameB] + n[NameC] <= MaxReportLines /\ n[NameC] <= 1}

RequiredLists ==
    {<<>>, <<PolicyName>>, <<NameA, NameB>>, <<NameB, NameA>>,
     <<NameC, NameA>>}

ReportInit ==
    /\ \E n \in ReportLineCounts :
          \E fa \in ReportFilesOfLines(n[NameA]) :
          \E fb \in ReportFilesOfLines(n[NameB]) :
          \E fc \in ReportFilesOfLines(n[NameC]) :
          \E exists \in BOOLEAN :
              /\ (~exists) => (\A name \in Names : n[name] = 0)
              /\ fs = [exists |-> exists,
                       files |-> (NameA :> fa @@ NameB :> fb @@ NameC :> fc)]
    /\ allowlist \in Allowlists
    /\ required_files \in RequiredLists
    /\ report = NoResult
    /\ exit_status = NotExited
    /\ FetchIdle
    /\ ProtectIdle
    /\ state = NoResult
    /\ violations = NoResult
    /\ leaves = <<>>
    /\ other = <<>>
    /\ variant = NoVariant
    /\ calls = <<>>

\* report = generate_drift_report(repo_path, allowlist, required_files),
\* called any number of times on the same repository and policy.
GenerateDriftReport ==
    /\ exit_status = NotExited
    /\ \E order \in Orders(GlobNames) :
          report' = generate_drift_report(order)
    /\ UNCHANGED <<fs, allowlist, required_files, state, violations,
                   exit_status>>

\* main(): the report for the configured lists, then the exit status.
Main ==
    /\ exit_status = NotExited
    /\ \E order \in Orders(GlobNames) :
          /\ report' = generate_drift_report(order)
          /\ exit_status' = ExitStatusOf(generate_drift_report(order))
    /\ UNCHANGED <<fs, allowlist, required_files, state, violations>>

ReportNext ==
    \/ GenerateDriftReport /\ UNCHANGED <<merkleVars, fetchVars, protectVars>>
    \/ Main /\ UNCHANGED <<merkleVars, fetchVars, protectVars>>

ReportSpec == ReportInit /\ [][ReportNext]_vars

(***************************************************************************)
(* Properties of the report, checked under ReportSpec.                     *)
(***************************************************************************)
ReportDone == report.returned /\ ~report.raised

\* The positions of the inline-command entries and of the missing-file
\* entries in the violation list of the report.
InlineEntries ==
    {k \in DOMAIN report.violations :
        report.violations[k].violation_type = "bespoke_run_command"}
MissingFileEntries ==
    {k \in DOMAIN report.violations :
        report.violations[k].violation_type = "missing_required_file"}

InlineEntriesFor(name) ==
    {k \in InlineEntries : report.violations[k].file = name}

\* C11: a workflow file that cannot be read or decoded never aborts the
\* scan: generate_drift_report (and detect_policy_violations inside it)
\* still returns, the bad file contributes no violation, and the
\* violations of the other files are still reported.
C11_UnreadableFileNeverAborts ==
    report.returned =>
        /\ ~report.raised
        /\ \A name \in ScannedNames :
              IF fs.files[name].status # "ok"
              THEN InlineEntriesFor(name) = {}
              ELSE (InlineEntriesFor(name) # {}) <=>
                       (CommandLineNumbers(name) # {})

\* The order of the violation list of a report r.
InlineBeforeMissing(r) ==
    \A i, j \in DOMAIN r.violations :
        (/\ r.violations[i].violation_type = "bespoke_run_command"
         /\ r.violations[j].violation_type = "missing_required_file") => i < j

\* The place of a file in the order the files were supplied: the order of
\* the inventory of the same report.
SuppliedPos(r, name) ==
    CHOOSE k \in DOMAIN r.state.workflows : r.state.workflows[k].name = name

InlineInSuppliedOrder(r) ==
    \A i, j \in DOMAIN r.violations :
        (/\ i < j
         /\ r.violations[i].violation_type = "bespoke_run_command"
         /\ r.violations[j].violation_type = "bespoke_run_command")
            => SuppliedPos(r, r.violations[i].file)
                   < SuppliedPos(r, r.violations[j].file)

MissingInRequiredOrder(r) ==
    LET IsMissing(v) == v.violation_type = "missing_required_file"
        m == SelectSeq(r.violations, IsMissing)
        names == [k \in DOMAIN m |-> m[k].file]
        Named(f) == \E k \in DOMAIN names : names[k] = f
    IN  names = SelectSeq(required_files, Named)

\* C12: in the violation list of a report every inline-command violation
\* precedes every missing-file violation, the inline-command violations
\* are in the order the files were supplied and the missing-file
\* violations in the order of the required-file list, so that a further
\* scan of the same file set and policy gives the same list in the same
\* order.
C12_ViolationOrder ==
    [][(report'.returned /\ ~report'.raised) =>
          /\ InlineBeforeMissing(report')
          /\ InlineInSuppliedOrder(report')
          /\ MissingInRequiredOrder(report')
          /\ ReportDone => report'.violations = report.violations]_vars

\* The names of the missing-file entries of the report, in list order.
MissingNames ==
    LET IsMissing(v) == v.violation_type = "missing_required_file"
        m == SelectSeq(report.violations, IsMissing)
    IN  [k \in DOMAIN m |-> m[k].file]

\* No file of the scanned set (the files the pattern of the scan matches)
\* has this name.
NotInScannedSet(name) == name \notin GlobNames

\* No file of the workflows directory has this name.
NotInDirectory(name) ==
    ~\E n \in DOMAIN fs.files :
        n = name /\ fs.files[n].status # "absent"

\* C13 as stated: one missing_required_file violation for each required
\* name that no file of the scanned set has, none for the other names.
C13_OnePerMissingName_ScannedSet ==
    ReportDone => MissingNames = SelectSeq(required_files, NotInScannedSet)

\* C13: detect_missing_policies gives exactly one missing_required_file
\* violation for each name of the required-file list that no file of the
\* workflows directory has, whether or not the scan's pattern matches the
\* name, and none for a name that is present; with no file at all and the
\* required list ['policy.yml'] the result is one violation naming
\* policy.yml.
C13_OnePerMissingName ==
    ReportDone =>
        /\ MissingNames = SelectSeq(required_files, NotInDirectory)
        /\ \A k \in MissingFileEntries :
              report.violations[k].path = RelPath(report.violations[k].file)
        /\ ((\A n \in DOMAIN fs.files : fs.files[n].status = "absent")
               /\ required_files = <<PolicyName>>)
              => /\ Len(report.violations) = 1
                 /\ report.violations[1].file = PolicyName
                 /\ report.violations[1].violation_type
                        = "missing_required_file"

\* A required file the pattern does not match is present and not reported,
\* while the other required name, absent, is reported once.
C13_Witness ==
    /\ ReportDone
    /\ required_files = <<NameC, NameA>>
    /\ fs.files[NameC].status = "ok"
    /\ MissingNames = <<NameA>>

\* No matched file holds an inline command and every required file is in
\* the directory.
CompliantFileSet ==
    /\ \A name \in GlobNames :
          /\ fs.files[name].status = "ok"
          /\ CommandLineNumbers(name) = {}
    /\ \A k \in DOMAIN required_files : ~NotInDirectory(required_files[k])

\* C15: in every report the verdict is derived from the violation list
\* alone: violation_count is its length, drift_detected holds exactly when
\* it is non-empty, status is 'COMPLIANT' exactly when it is empty and
\* 'DRIFT_DETECTED' otherwise, a file set with no inline command and all
\* required files is compliant, and main exits with status 0 exactly when
\* its report is compliant and with status 1 otherwise.
C15_VerdictFromViolations ==
    /\ ReportDone =>
          /\ report.violation_count = Len(report.violations)
          /\ report.drift_detected <=> (report.violations # <<>>)
          /\ (report.status = "COMPLIANT") <=> (report.violations = <<>>)
          /\ report.status \in {"COMPLIANT", "DRIFT_DETECTED"}
          /\ CompliantFileSet =>
                (report.status = "COMPLIANT" /\ report.violations = <<>>)
    /\ exit_status # NotExited =>
          /\ report.returned
          /\ exit_status =
                 IF ~report.raised /\ report.status = "COMPLIANT"
                 THEN 0 ELSE 1

\* main has exited with status 0 on a repository with two workflow files
\* and a required file.
C15_Witness ==
    /\ exit_status = 0
    /\ ReportDone
    /\ report.status = "COMPLIANT"
    /\ report.state.workflow_count = 2
    /\ required_files # <<>>

\* The violation entries the file texts and the policy call for: one per
\* scanned file with a command line, one per required name that is not in
\* the directory.
ExpectedInline ==
    {[file |-> name, violation_type |-> "bespoke_run_command",
      lines |-> CommandLineNumbers(name)] :
        name \in {n \in ScannedNames : CommandLineNumbers(n) # {}}}
ExpectedMissing ==
    {[file |-> required_files[k], violation_type |-> "missing_required_file"] :
        k \in {i \in DOMAIN required_files : NotInDirectory(required_files[i])}}

\* C16: the commitment pass and the violation pass are independent.  The
\* inventory and the Merkle root of a report are those of the file set
\* alone, whatever the allowlist and the required-file list (a matched file
\* is hashed and committed also when it is allowlisted), and the violation
\* list is the one the file texts and the policy call for, whatever the
\* hashes and the root.
C16_PassesIndependent ==
    ReportDone =>
        LET ws == report.state.workflows
        IN  /\ {ws[k].name : k \in DOMAIN ws} = GlobNames
            /\ Len(ws) = Cardinality(GlobNames)
            /\ report.state.workflow_count = Cardinality(GlobNames)
            /\ \A k \in DOMAIN ws :
                  LET file == fs.files[ws[k].name]
                  IN  ws[k].hash =
                          Digest(IF file.status = "unreadable"
                                 THEN <<>> ELSE file.content)
            /\ \A p, q \in DOMAIN ws : p < q => StrLess(ws[p].name, ws[q].name)
            /\ report.state.merkle_root =
                   IF Len(ws) = 0 THEN Digest(<<>>)
                   ELSE IF Len(ws) = 1 THEN Digest(ws[1].hash \o ws[1].hash)
                   ELSE Digest(ws[1].hash \o ws[2].hash)
            /\ {[file |-> report.violations[k].file,
                 violation_type |-> "bespoke_run_command",
                 lines |-> {report.violations[k].lines[m] :
                               m \in DOMAIN report.violations[k].lines}] :
                   k \in InlineEntries} = ExpectedInline
            /\ {[file |-> report.violations[k].file,
                 violation_type |-> "missing_required_file"] :
                   k \in MissingFileEntries} = ExpectedMissing
            /\ InlineEntries \cup MissingFileEntries = DOMAIN report.violations

\* An allowlisted file with a command line is in the inventory and in the
\* root of a report whose violation list is empty.
C16_Witness ==
    /\ ReportDone
    /\ allowlist = {NameA}
    /\ CommandLineNumbers(NameA) # {}
    /\ report.state.workflow_count = 2
    /\ report.state.workflows[1].name = NameA
    /\ report.violations = <<>>
    /\ required_files # <<>>

(***************************************************************************)
(* generate_repo_report.py: make_request and fetch_repositories.           *)
(***************************************************************************)
MaxRetries == 3
MaxPages == 3

\* Line 45: the default of max_retries, which fetch_repositories uses.
DefaultMaxRetries == 5

\* message.lower(), word by word.
lower(word) ==
    CASE word = "API" -> "api"
      [] word = "Rate" -> "rate"
      [] word = "Limit" -> "limit"
      [] OTHER -> word

\* "rate limit" in message.lower(), for a message given as its words.
MentionsRateLimit(message) ==
    \E i \in 1..(Len(message) - 1) :
        lower(message[i]) = "rate" /\ lower(message[i + 1]) = "limit"

\* The entries of the "errors" list of a GraphQL response.
RateLimitedError == [type |-> "RATE_LIMITED", message |-> <<"Slow", "down">>]
RateLimitMessageError ==
    [type |-> "", message |-> <<"API", "Rate", "Limit", "exceeded">>]
NotFoundError ==
    [type |-> "NOT_FOUND", message |-> <<"Could", "not", "resolve">>]
ErrorLists ==
    {<<>>, <<RateLimitedError>>, <<RateLimitMessageError>>,
     <<NotFoundError>>, <<NotFoundError, RateLimitedError>>}

\* The "data" of a response: whether repositoryOwner is there, the nodes,
\* and the pageInfo keys (a key can be absent).
NoPage == [owner |-> FALSE, nodes |-> <<>>, hasNextPage |-> "absent",
           endCursor |-> "absent"]
PageSet ==
    {NoPage} \cup
    {[owner |-> TRUE, nodes |-> n, hasNextPage |-> h, endCursor |-> c] :
        n \in {<<"r1">>, <<"r2", "r3">>},
        h \in {"true", "false", "absent"},
        c \in {"c1", "absent"}}

\* What session.post and response.json() can give for one request.
HttpResponse(code, has_errors, errors, page) ==
    [kind |-> "http", status_code |-> code, has_errors |-> has_errors,
     errors |-> errors, page |-> page]
Timeout == [kind |-> "timeout"]
ConnectionError == [kind |-> "connection_error"]
ResponseSet(pageset) ==
    {Timeout, ConnectionError}
    \cup {HttpResponse(code, FALSE, <<>>, NoPage) :
             code \in {401, 403, 404, 500, 502, 503, 504}}
    \cup {HttpResponse(200, TRUE, e, NoPage) : e \in ErrorLists}
    \cup {HttpResponse(200, FALSE, <<>>, pg) : pg \in pageset}

\* Mutant of AttemptsRemain: the last attempt counts as one that can be
\* followed by another.
AttemptsRemainOffByOne(a) == a < max_retries

\* Lines 73, 106, 122: attempt < max_retries - 1.
AttemptsRemain(a) == a < max_retries - 1

\* Line 104.
IsRateLimit(error) ==
    MentionsRateLimit(error.message) \/ error.type = "RATE_LIMITED"

\* Lines 98-111: the loop over the errors at attempt a, having slept n
\* times.  `continue` (line 108) goes on with the next error of this loop
\* and not with the next attempt.
RECURSIVE ErrorsLoop(_, _, _)
ErrorsLoop(errors, a, n) ==
    IF errors = <<>>
    THEN [next |-> "fall_through", sleeps |-> n]
    ELSE IF IsRateLimit(Head(errors))
    THEN IF AttemptsRemain(a)
         THEN ErrorsLoop(Tail(errors), a, n + 1)
         ELSE [next |-> "exit", sleeps |-> n]
    ELSE ErrorsLoop(Tail(errors), a, n)

\* Lines 66-131: the body of the loop for attempt a and the outcome r of
\* the post: "continue" with the next attempt (after a sleep), "exit"
\* (sys.exit(1)) or "return" (the data).
AttemptOutcome(r, a) ==
    IF r.kind = "timeout"
    THEN IF AttemptsRemain(a)
         THEN [next |-> "continue", sleeps |-> 1]
         ELSE [next |-> "exit", sleeps |-> 0]
    ELSE IF r.kind = "connection_error"
    THEN [next |-> "exit", sleeps |-> 0]
    ELSE IF r.status_code \in {502, 503, 504}
    THEN IF AttemptsRemain(a)
         THEN [next |-> "continue", sleeps |-> 1]
         ELSE [next |-> "exit", sleeps |-> 0]
    ELSE IF r.status_code = 401
    THEN [next |-> "exit", sleeps |-> 0]
    ELSE IF 400 <= r.status_code /\ r.status_code < 500
    THEN [next |-> "exit", sleeps |-> 0]
    ELSE IF r.status_code >= 400
    THEN [next |-> "exit", sleeps |-> 0]
    ELSE IF r.has_errors
    THEN [next |-> "exit", sleeps |-> ErrorsLoop(r.errors, a, 0).sleeps]
    ELSE [next |-> "return", sleeps |-> 0]

\* Mutant of NextCursor: the cursor is never advanced.
NextCursorNone(page) == None

\* Line 228: page_info.get("endCursor").
NextCursor(page) ==
    IF page.endCursor = "absent" THEN None ELSE page.endCursor

\* Line 225: page_info.get("hasNextPage", False).
HasNextPage(page) == page.hasNextPage = "true"

(***************************************************************************)
(* One call of make_request or of fetch_repositories.                      *)
(***************************************************************************)
FetchInit ==
    /\ \/ /\ entry = "make_request"
          /\ max_retries \in 0..MaxRetries
          /\ pc = "request"
       \/ /\ entry = "fetch_repositories"
          /\ max_retries = DefaultMaxRetries
          /\ pc = "fetch"
    /\ attempt = 0
    /\ sent = 0
    /\ sleeps = 0
    /\ response = NoResponse
    /\ data = NoData
    /\ exit_code = NotExited
    /\ after_cursor = None
    /\ repositories = <<>>
    /\ requests = <<>>
    /\ pages = <<>>
    /\ leaves = <<>>
    /\ other = <<>>
    /\ variant = NoVariant
    /\ calls = <<>>
    /\ fs = <<>>
    /\ allowlist = {}
    /\ state = NoResult
    /\ violations = NoResult
    /\ required_files = <<>>
    /\ report = NoResult
    /\ exit_status = NotExited
    /\ ProtectIdle

\* Lines 205-209: the variables of the next page request, and the call of
\* make_request.
FetchRequest ==
    /\ pc = "fetch"
    /\ requests' = Append(requests, after_cursor)
    /\ attempt' = 0
    /\ sent' = 0
    /\ sleeps' = 0
    /\ response' = NoResponse
    /\ pc' = "request"
    /\ UNCHANGED <<entry, max_retries, data, exit_code, after_cursor,
                   repositories, pages>>

\* The pages the server can answer the current request with: the page
\* that makes the MaxPages-th one has no next page.
ServerPages ==
    IF Len(pages) + 1 >= MaxPages
    THEN {pg \in PageSet : ~HasNextPage(pg)}
    ELSE PageSet

\* Lines 65-131: one pass of the loop `for attempt in range(max_retries)`.
Attempt ==
    /\ pc = "request"
    /\ attempt < max_retries
    /\ \E r \in ResponseSet(ServerPages) :
          LET o == AttemptOutcome(r, attempt)
          IN  /\ response' = r
              /\ sent' = sent + 1
              /\ sleeps' = sleeps + o.sleeps
              /\ \/ /\ o.next = "continue"
                    /\ attempt' = attempt + 1
                    /\ pc' = "request"
                    /\ UNCHANGED <<data, exit_code>>
                 \/ /\ o.next = "exit"
                    /\ pc' = "exited"
                    /\ exit_code' = 1
                    /\ UNCHANGED <<attempt, data>>
                 \/ /\ o.next = "return"
                    /\ pc' = "returned"
                    /\ data' = [kind |-> "data", page |-> r.page]
                    /\ UNCHANGED <<attempt, exit_code>>
    /\ UNCHANGED <<entry, max_retries, after_cursor, repositories, requests,
                   pages>>

\* Lines 133-134: the loop ended without a return.
RetriesExhausted ==
    /\ pc = "request"
    /\ attempt >= max_retries
    /\ pc' = "exited"
    /\ exit_code' = 1
    /\ UNCHANGED <<entry, max_retries, attempt, sent, sleeps, response, data,
                   after_cursor, repositories, requests, pages>>

\* Lines 211-228: fetch_repositories takes the page make_request returned.
FetchPage ==
    /\ pc = "returned"
    /\ entry = "fetch_repositories"
    /\ LET page == data.page
       IN  IF ~page.owner
           THEN /\ pc' = "exited"
                /\ exit_code' = 1
                /\ UNCHANGED <<after_cursor, repositories, pages>>
           ELSE /\ repositories' = repositories \o page.nodes
                /\ pages' = Append(pages, page)
                /\ IF ~HasNextPage(page)
                   THEN /\ pc' = "fetch_returned"
                        /\ UNCHANGED after_cursor
                   ELSE /\ pc' = "fetch"
                        /\ after_cursor' = NextCursor(page)
                /\ UNCHANGED exit_code
    /\ UNCHANGED <<entry, max_retries, attempt, sent, sleeps, response, data,
                   requests>>

FetchNext ==
    \/ FetchRequest /\ UNCHANGED <<merkleVars, scanVars, reportVars, protectVars>>
    \/ Attempt /\ UNCHANGED <<merkleVars, scanVars, reportVars, protectVars>>
    \/ RetriesExhausted /\ UNCHANGED <<merkleVars, scanVars, reportVars, protectVars>>
    \/ FetchPage /\ UNCHANGED <<merkleVars, scanVars, reportVars, protectVars>>

\* The interpreter runs the call on: a step that can be taken is taken
\* (a post ends within its timeout of 30 s, a sleep ends).
FetchSpec == FetchInit /\ [][FetchNext]_vars /\ WF_vars(FetchNext)

(***************************************************************************)
(* Properties of the request loop and the pagination, checked under        *)
(* FetchSpec.                                                              *)
(***************************************************************************)
\* The response is a GraphQL answer with a rate-limit error in its list.
CarriesRateLimit(r) ==
    /\ r.kind = "http"
    /\ r.status_code = 200
    /\ r.has_errors
    /\ \E k \in DOMAIN r.errors :
          r.errors[k] \in {RateLimitedError, RateLimitMessageError}

\* C17: when a GraphQL response carries a rate-limit error and attempts
\* remain (attempt < max_retries - 1), make_request waits and re-sends the
\* request in a further attempt: it does not end the process on that
\* response.
C17_RateLimitRetried ==
    (pc = "exited" /\ CarriesRateLimit(response)) =>
        ~(attempt < max_retries - 1)

\* The post ended in a 502, 503 or 504 response or in a timeout.
Retryable(r) ==
    \/ r.kind = "timeout"
    \/ r.kind = "http" /\ r.status_code \in {502, 503, 504}

\* A 401, another 4xx, or another request exception (a failed connection,
\* the HTTPError of raise_for_status).
Fatal(r) ==
    \/ r.kind = "connection_error"
    \/ r.kind = "http" /\ r.status_code = 401
    \/ r.kind = "http" /\ r.status_code \in 400..499
    \/ r.kind = "http" /\ r.status_code \in 500..599
                       /\ r.status_code \notin {502, 503, 504}

RequestLoopInvariant ==
    /\ sent <= max_retries
    /\ (pc = "request" /\ sent > 0) =>
          /\ Retryable(response)
          /\ attempt < max_retries
          /\ sent = attempt
    /\ (sent = max_retries /\ sent > 0 /\ Retryable(response)) =>
          (pc = "exited" /\ exit_code = 1)
    /\ (sent > 0 /\ Fatal(response)) => (pc = "exited" /\ exit_code = 1)
    /\ pc = "returned" =>
          /\ response.kind = "http"
          /\ response.status_code = 200
          /\ ~response.has_errors
          /\ data = [kind |-> "data", page |-> response.page]
    /\ (pc = "exited") <=> (exit_code = 1)
    /\ exit_code \in {NotExited, 1}

RECURSIVE NodesOf(_)
NodesOf(ps) == IF ps = <<>> THEN <<>> ELSE Head(ps).nodes \o NodesOf(Tail(ps))

\* The page has no further page: hasNextPage is false or not there.
IsLastPage(page) == page.hasNextPage \in {"false", "absent"}

EndCursorOf(page) ==
    IF page.endCursor = "absent" THEN "None" ELSE page.endCursor

PaginationInvariant ==
    entry = "fetch_repositories" =>
        /\ requests # <<>> => requests[1] = "None"
        /\ Len(requests) \in {Len(pages), Len(pages) + 1}
        /\ \A k \in 2..Len(requests) : requests[k] = EndCursorOf(pages[k - 1])
        /\ \A k \in 1..(Len(pages) - 1) : ~IsLastPage(pages[k])
        /\ repositories = NodesOf(pages)
        /\ (pages # <<>> /\ IsLastPage(pages[Len(pages)]))
              <=> (pc = "fetch_returned")

\* C19: fetch_repositories requests the pages one after another, passing
\* the endCursor of the page before as 'after' (null for the first page),
\* stops at the first page whose hasNextPage is false or absent and
\* returns the nodes of all fetched pages in page order; it ends when the
\* server comes to return such a page.
C19_Pagination ==
    /\ []PaginationInvariant
    /\ (entry = "fetch_repositories") ~> (pc \in {"fetch_returned", "exited"})

\* Three pages were fetched, the second with the cursor of the first.
C19_Witness ==
    /\ pc = "fetch_returned"
    /\ Len(pages) = 3
    /\ requests[2] = "c1"
    /\ requests[3] = "None"
    /\ repositories = <<"r2", "r3", "r1", "r2", "r3">>

(***************************************************************************)
(* setup_branch_protection.py: get_github_token, setup_branch_protection   *)
(* and main.  A dict is a function from the keys that are set to their     *)
(* values.                                                                 *)
(***************************************************************************)
MaxRepos == 3

\* dict.get(key, default).
Get(d, key, default) == IF key \in DOMAIN d THEN d[key] ELSE default

EmptyDict == [key \in {} |-> None]

\* The environments the process may run in: no token, GITHUB_TOKEN,
\* an empty GITHUB_TOKEN beside GH_TOKEN, and an empty GH_TOKEN alone.
Environs ==
    { EmptyDict,
      [GITHUB_TOKEN |-> "ghs_a"],
      [GITHUB_TOKEN |-> "", GH_TOKEN |-> "ghs_b"],
      [GH_TOKEN |-> ""] }

\* Lines 22-27: the first of GITHUB_TOKEN and GH_TOKEN that is set and not
\* empty; ValueError when there is none.
get_github_token(env) ==
    LET first == Get(env, "GITHUB_TOKEN", None)
        token == IF first \notin {None, ""} THEN first
                 ELSE Get(env, "GH_TOKEN", None)
    IN  IF token \in {None, ""}
        THEN [raised |-> TRUE,
              error |-> "GITHUB_TOKEN or GH_TOKEN environment variable is required"]
        ELSE [raised |-> FALSE, value |-> token]

\* The 'branch_protection' mappings of the manifest.
Configs ==
    { EmptyDict,
      [branch |-> "develop"],
      [required_checks |-> <<"ci", "lint">>, required_reviews |-> 2] }

\* The name of the repository at a position of the manifest's list.
RepoName(i) == <<"octo/alpha", "octo/beta", "octo/gamma", "octo/delta">>[i]

\* The entries the manifest may hold at a position: without and with a
\* 'branch_protection' key.
RepoConfigs(i) ==
    {[name |-> RepoName(i)]}
        \cup {[name |-> RepoName(i), branch_protection |-> c] : c \in Configs}

\* What subprocess.run(..., check=True) does: it returns, raises
\* CalledProcessError for a non-zero status of gh, or raises
\* FileNotFoundError when there is no gh executable.
GhOutcomes ==
    { [kind |-> "ok", text |-> ""],
      [kind |-> "CalledProcessError", text |-> "HTTP 404"],
      [kind |-> "FileNotFoundError", text |-> "No such file or directory: 'gh'"] }

\* Lines 32, 37-51: the branch and the settings read from the config.
BranchOf(config) == Get(config, "branch", "main")

\* Lines 65-81: the command for gh, as its endpoint and fields.
GhCommand(repo_name, config) ==
    [repo |-> repo_name,
     branch |-> BranchOf(config),
     strict |-> Get(config, "require_status_checks", TRUE),
     reviews |-> Get(config, "required_reviews", 1),
     contexts |-> Get(config, "required_checks", <<>>)]

\* Lines 58, 86, 90, 93: the dicts setup_branch_protection returns.
DryRunResult(repo_name, branch) ==
    [repository |-> repo_name, branch |-> branch,
     status |-> "dry_run", success |-> TRUE]

SuccessResult(repo_name, branch) ==
    [repository |-> repo_name, branch |-> branch,
     status |-> "success", success |-> TRUE]

ErrorResult(repo_name, branch, error) ==
    [repository |-> repo_name, branch |-> branch,
     status |-> "error", success |-> FALSE, error |-> error]

\* Mutant of setup_branch_protection: the token is read before dry_run is
\* looked at.
setup_branch_protection_token_first(repo_name, config, dry, env, gh) ==
    LET branch == BranchOf(config)
        token == get_github_token(env)
    IN  IF dry
        THEN [result |-> DryRunResult(repo_name, branch),
              token_reads |-> 1, cmds |-> <<>>]
        ELSE IF token.raised
        THEN [result |-> ErrorResult(repo_name, branch, token.error),
              token_reads |-> 1, cmds |-> <<>>]
        ELSE [result |-> IF gh.kind = "ok"
                         THEN SuccessResult(repo_name, branch)
                         ELSE ErrorResult(repo_name, branch, gh.text),
              token_reads |-> 1,
              cmds |-> <<GhCommand(repo_name, config)>>]

\* Lines 30-93: the returned dict, the number of calls of get_github_token
\* and the commands run.  'gh' is what subprocess.run does if it is called.
setup_branch_protection(repo_name, config, dry, env, gh) ==
    LET branch == BranchOf(config)
        token == get_github_token(env)
    IN  IF dry
        THEN [result |-> DryRunResult(repo_name, branch),
              token_reads |-> 0, cmds |-> <<>>]
        ELSE IF token.raised
        THEN [result |-> ErrorResult(repo_name, branch, token.error),
              token_reads |-> 1, cmds |-> <<>>]
        ELSE [result |-> IF gh.kind = "ok"
                         THEN SuccessResult(repo_name, branch)
                         ELSE ErrorResult(repo_name, branch, gh.text),
              token_reads |-> 1,
              cmds |-> <<GhCommand(repo_name, config)>>]

\* Line 135: the number of results whose 'success' is true.
success_count(rs) == Cardinality({k \in DOMAIN rs : rs[k].success})

\* Lines 104-116: the arguments are parsed, the manifest is loaded and the
\* list of results is empty.
ProtectInit ==
    /\ governed_repos \in
          UNION {{rs \in [1..n -> UNION {RepoConfigs(i) : i \in 1..n}] :
                     \A i \in 1..n : rs[i] \in RepoConfigs(i)} : n \in 0..MaxRepos}
    /\ dry_run \in BOOLEAN
    /\ environ \in Environs
    /\ results = <<>>
    /\ token_reads = 0
    /\ gh_calls = <<>>
    /\ repo_index = 1
    /\ main_pc = "loop"
    /\ main_exit = NotExited
    /\ leaves = <<>>
    /\ other = <<>>
    /\ variant = NoVariant
    /\ calls = <<>>
    /\ fs = <<>>
    /\ allowlist = {}
    /\ state = NoResult
    /\ violations = NoResult
    /\ required_files = <<>>
    /\ report = NoResult
    /\ exit_status = NotExited
    /\ FetchIdle

\* Lines 118-121: an entry without 'branch_protection' is passed over.
SkipRepository ==
    /\ main_pc = "loop"
    /\ repo_index <= Len(governed_repos)
    /\ "branch_protection" \notin DOMAIN governed_repos[repo_index]
    /\ repo_index' = repo_index + 1
    /\ UNCHANGED <<governed_repos, dry_run, environ, results, token_reads,
                   gh_calls, main_pc, main_exit>>

\* Lines 118-128: setup_branch_protection is called for an entry that has
\* 'branch_protection', and its result is appended.
SetupRepository ==
    /\ main_pc = "loop"
    /\ repo_index <= Len(governed_repos)
    /\ "branch_protection" \in DOMAIN governed_repos[repo_index]
    /\ \E gh \in GhOutcomes :
          LET repo_config == governed_repos[repo_index]
              r == setup_branch_protection(repo_config.name,
                                           repo_config.branch_protection,
                                           dry_run, environ, gh)
          IN  /\ results' = Append(results, r.result)
              /\ token_reads' = token_reads + r.token_reads
              /\ gh_calls' = gh_calls \o r.cmds
    /\ repo_index' = repo_index + 1
    /\ UNCHANGED <<governed_repos, dry_run, environ, main_pc, main_exit>>

\* Lines 130-145: after the loop, sys.exit(1) when a result is not a
\* success; otherwise main returns and the status is 0.
Summary ==
    /\ main_pc = "loop"
    /\ repo_index > Len(governed_repos)
    /\ main_pc' = "exited"
    /\ main_exit' = IF success_count(results) < Len(results) THEN 1 ELSE 0
    /\ UNCHANGED <<governed_repos, dry_run, environ, results, token_reads,
                   gh_calls, repo_index>>

ProtectNext ==
    \/ SkipRepository /\ UNCHANGED <<merkleVars, scanVars, reportVars, fetchVars>>
    \/ SetupRepository /\ UNCHANGED <<merkleVars, scanVars, reportVars, fetchVars>>
    \/ Summary /\ UNCHANGED <<merkleVars, scanVars, reportVars, fetchVars>>

ProtectSpec == ProtectInit /\ [][ProtectNext]_vars

\* The positions before i whose entry has a 'branch_protection' key.
ProtectedBefore(i) ==
    {j \in 1..(i - 1) : "branch_protection" \in DOMAIN governed_repos[j]}

\* The result at position k is the dry-run result of the entry at j.
IsDryRunResultOf(k, j) ==
    results[k] = [repository |-> governed_repos[j].name,
                  branch |-> Get(governed_repos[j].branch_protection,
                                 "branch", "main"),
                  status |-> "dry_run",
                  success |-> TRUE]

\* C22: with dry_run set, setup_branch_protection makes no call of
\* get_github_token and runs no gh command, and returns a result with
\* status "dry_run" and success true; main appends one result, in order,
\* for each entry that has 'branch_protection' and none for an entry
\* without it; the process exits with status 1 exactly when some result
\* has success false, and with status 0 otherwise.
C22_DryRunSkipAndExit ==
    /\ \A i \in 1..MaxRepos : \A c \in Configs :
       \A env \in Environs : \A gh \in GhOutcomes :
          LET r == setup_branch_protection(RepoName(i), c, TRUE, env, gh)
          IN  /\ r.token_reads = 0
              /\ r.cmds = <<>>
              /\ r.result.status = "dry_run"
              /\ r.result.success = TRUE
    /\ dry_run =>
          /\ token_reads = 0
          /\ gh_calls = <<>>
          /\ \A k \in DOMAIN results :
                results[k].status = "dry_run" /\ results[k].success = TRUE
          /\ \A j \in ProtectedBefore(repo_index) :
                IsDryRunResultOf(Cardinality(ProtectedBefore(j)) + 1, j)
    /\ Len(results) = Cardinality(ProtectedBefore(repo_index))
    /\ \A j \in ProtectedBefore(repo_index) :
          results[Cardinality(ProtectedBefore(j)) + 1].repository
              = governed_repos[j].name
    /\ Len(gh_calls) <= token_reads
    /\ main_pc = "exited" =>
          /\ repo_index = Len(governed_repos) + 1
          /\ main_exit \in {0, 1}
          /\ main_exit = 1 <=> (\E k \in DOMAIN results : ~results[k].success)

\* A dry run without any token in the environment over three entries, the
\* second without 'branch_protection': two results, both "dry_run", and
\* exit status 0.
C22_Witness ==
    /\ main_pc = "exited"
    /\ dry_run
    /\ environ = EmptyDict
    /\ Len(governed_repos) = 3
    /\ "branch_protection" \notin DOMAIN governed_repos[2]
    /\ Len(results) = 2
    /\ results[1].repository = RepoName(1)
    /\ results[2].repository = RepoName(3)
    /\ results[2].status = "dry_run"
    /\ token_reads = 0
    /\ gh_calls = <<>>
    /\ main_exit = 0

====
